---- MODULE Spec2Model ----
(***************************************************************************)
(* Navigation decision core of the DDMR VFH collision-avoidance robot:     *)
(*   ArduinoComm     (src/modules/arduino_comm.py)  command dispatcher     *)
(*   KinectVFH       (src/modules/kinect_vfh.py)    sector classifier and  *)
(*                                                  avoidance controller   *)
(*   ArucoTracker    (src/modules/aruco_tracker.py) tracking mapper        *)
(*   RobotController (src/main.py)                  arbiter + control loop *)
(* Times are counted in ticks of 0.1 s, distances in decimetres.           *)
(***************************************************************************)
EXTENDS Integers, Sequences, FiniteSets, TLC

VARIABLES
    arduino,         \* the ArduinoComm object and the history of its port
    vfh,             \* the avoidance state of the KinectVFH object
    now,             \* wall clock, as read by time.time()
    pc,              \* position of RobotController.run
    mode,            \* RobotController.mode
    current_command, \* RobotController.current_command
    force_mode,      \* RobotController.force_mode
    sector_status,   \* run(): sector_status of the latest cycle
    path_clear,      \* run(): path_clear of the latest cycle
    vfh_command,     \* run(): vfh_command of the latest cycle
    aruco_result,    \* run(): aruco_result of the latest cycle
    aruco_command,   \* run(): aruco_command of the latest cycle
    final_command,   \* run(): final_command of the latest cycle
    sighting,        \* how the latest cycle's obstacle relates to the cycle before
    stop_only,       \* every cycle since startup has had STOP as its final command
    shutdown,        \* the ArduinoComm object as it was when cleanup began
    depth_frame,     \* the depth frame handed to analyze_sectors
    angle_y,         \* KinectVFH.angle_y, in degrees
    num_sectors,     \* KinectVFH.num_sectors
    quit_requested,  \* the operator has pressed q and waitKey has not returned it yet
    skipped          \* the latest iteration of run() ended at the continue of line 92

loop_vars == <<sector_status, path_clear, vfh_command, aruco_result,
               aruco_command, final_command, sighting, stop_only>>
ctl_vars  == <<pc, mode, current_command, force_mode, shutdown>>
cam_vars  == <<depth_frame, angle_y, num_sectors>>
op_vars   == <<quit_requested, skipped>>
vars      == <<arduino, vfh, now, loop_vars, ctl_vars, cam_vars, op_vars>>

None == "None"

\* ---------------------------------------------------------------------------
\* Bounds of the model
\* ---------------------------------------------------------------------------
\* longest port history before the dispatcher stops being exercised
MaxLink == 4
\* latest clock reading
MaxTime == 10
\* longest time between two clock readings
MaxDt == 5

\* ---------------------------------------------------------------------------
\* ArduinoComm
\* ---------------------------------------------------------------------------
valid_commands == {"FORWARD", "LEFT", "RIGHT", "STOP"}

\* values a caller may hand to send_command that are not commands
InvalidCommands == {None, "BACKWARD"}

\* one serial.write on the port: it either returns (ok) or raises
Write(cmd, ok, by) == [kind |-> "write", cmd |-> cmd, ok |-> ok, by |-> by]

\* one serial.close() on the port
PortClose == [kind |-> "port_close", cmd |-> None, ok |-> TRUE, by |-> "close"]

\* ArduinoComm.__init__ up to the call of _connect
ArduinoNew ==
    [serial |-> None, last_command |-> None, connected |-> FALSE,
     sent |-> FALSE, link |-> <<>>]

\* _connect(): serial.Serial(...) either opens the port (ok) or raises
connect(a, ok) ==
    [a EXCEPT !.serial = IF ok THEN "open" ELSE None, !.connected = ok]

\* send_command without the comparison with last_command
send_command_no_dedup(a, command, ok) ==
    IF command \notin valid_commands
    THEN [a EXCEPT !.sent = FALSE]
    ELSE IF a.connected /\ a.serial = "open"
    THEN IF ok
         THEN [a EXCEPT !.link = Append(@, Write(command, TRUE, "send_command")),
                        !.last_command = command,
                        !.sent = TRUE]
         ELSE [a EXCEPT !.link = Append(@, Write(command, FALSE, "send_command")),
                        !.connected = FALSE,
                        !.sent = FALSE]
    ELSE [a EXCEPT !.last_command = command, !.sent = TRUE]

\* send_command recording the command also when the write raises
send_command_records_failure(a, command, ok) ==
    IF command \notin valid_commands
    THEN [a EXCEPT !.sent = FALSE]
    ELSE IF command = a.last_command
    THEN [a EXCEPT !.sent = TRUE]
    ELSE IF a.connected /\ a.serial = "open"
    THEN IF ok
         THEN [a EXCEPT !.link = Append(@, Write(command, TRUE, "send_command")),
                        !.last_command = command,
                        !.sent = TRUE]
         ELSE [a EXCEPT !.link = Append(@, Write(command, FALSE, "send_command")),
                        !.connected = FALSE,
                        !.last_command = command,
                        !.sent = FALSE]
    ELSE [a EXCEPT !.last_command = command, !.sent = TRUE]

\* send_command writing whenever the port is open, connected or not
send_command_retries(a, command, ok) ==
    IF command \notin valid_commands
    THEN [a EXCEPT !.sent = FALSE]
    ELSE IF command = a.last_command
    THEN [a EXCEPT !.sent = TRUE]
    ELSE IF a.serial = "open"
    THEN IF ok
         THEN [a EXCEPT !.link = Append(@, Write(command, TRUE, "send_command")),
                        !.last_command = command,
                        !.sent = TRUE]
         ELSE [a EXCEPT !.link = Append(@, Write(command, FALSE, "send_command")),
                        !.connected = FALSE,
                        !.sent = FALSE]
    ELSE [a EXCEPT !.last_command = command, !.sent = TRUE]

\* send_command without the membership test on valid_commands
send_command_no_validation(a, command, ok) ==
    IF command = a.last_command
    THEN [a EXCEPT !.sent = TRUE]
    ELSE IF a.connected /\ a.serial = "open"
    THEN IF ok
         THEN [a EXCEPT !.link = Append(@, Write(command, TRUE, "send_command")),
                        !.last_command = command,
                        !.sent = TRUE]
         ELSE [a EXCEPT !.link = Append(@, Write(command, FALSE, "send_command")),
                        !.connected = FALSE,
                        !.sent = FALSE]
    ELSE [a EXCEPT !.last_command = command, !.sent = TRUE]

\* send_command(command); ok tells whether serial.write returns, when called.
\* The field sent is the value the call returns.
send_command(a, command, ok) ==
    IF command \notin valid_commands
    THEN [a EXCEPT !.sent = FALSE]
    ELSE IF command = a.last_command
    THEN [a EXCEPT !.sent = TRUE]
    ELSE IF a.connected /\ a.serial = "open"
    THEN IF ok
         THEN [a EXCEPT !.link = Append(@, Write(command, TRUE, "send_command")),
                        !.last_command = command,
                        !.sent = TRUE]
         ELSE [a EXCEPT !.link = Append(@, Write(command, FALSE, "send_command")),
                        !.connected = FALSE,
                        !.sent = FALSE]
    ELSE [a EXCEPT !.last_command = command, !.sent = TRUE]

\* close releasing the port without writing STOP
close_no_stop(a, ok) ==
    [a EXCEPT !.link = IF a.serial = "open" THEN Append(@, PortClose) ELSE @,
              !.serial = None,
              !.connected = FALSE,
              !.last_command = None]

\* close() that forgets to clear last_command
close_keeps_last_command(a, ok) ==
    [a EXCEPT !.link = IF a.serial = "open"
                       THEN IF ok
                            THEN @ \o <<Write("STOP", TRUE, "close"), PortClose>>
                            ELSE Append(@, Write("STOP", FALSE, "close"))
                       ELSE @,
              !.serial = None,
              !.connected = FALSE]

\* close(); ok tells whether the write of STOP returns, when it is made
close(a, ok) ==
    [a EXCEPT !.link = IF a.serial = "open"
                       THEN IF ok
                            THEN @ \o <<Write("STOP", TRUE, "close"), PortClose>>
                            ELSE Append(@, Write("STOP", FALSE, "close"))
                       ELSE @,
              !.serial = None,
              !.connected = FALSE,
              !.last_command = None]

\* reconnect(): close() and then _connect()
reconnect(a, ok, reopened) == connect(close(a, ok), reopened)

\* ---------------------------------------------------------------------------
\* KinectVFH: avoidance controller
\* ---------------------------------------------------------------------------
sector_labels == <<"Kiri", "Kiri-Depan", "Tengah", "Kanan-Depan", "Kanan">>

Labels == {sector_labels[i] : i \in 1..Len(sector_labels)}

SectorStatuses == [Labels -> {"High", "Low"}]

forward_duration == 4
turn_duration == 2

\* KinectVFH.__init__ at clock reading t
VfhNew(t) ==
    [current_command |-> "FORWARD", command_start_time |-> t,
     turn_direction |-> None]

\* analyze_sectors(None)
AllLow == [l \in Labels |-> "Low"]

is_all_clear(status) == \A l \in Labels : status[l] = "Low"

\* ---------------------------------------------------------------------------
\* KinectVFH: sector classifier.  A depth frame is one image row: a depth in
\* decimetres for each pixel column (the row of a pixel plays no part in its
\* azimuth); angle_y is in degrees, azimuths are in hundredths of a degree.
\* ---------------------------------------------------------------------------
threshold_distance == 10

\* sector counts the object may be constructed with
NumSectors == {3, 5, 6}

\* most presses of the rotate-view keys, to either side
MaxTurns == 2

\* the pixel columns looked at: one well to the left, and the two on either
\* side of the optical axis (cx = 319.5 lies between columns 319 and 320)
Columns == {86, 319, 320}

Depths == {0, 5, 10, 15}

Frames == [Columns -> Depths]

\* depth_frame is None
NoFrame == [c \in {} |-> 0]

\* pi, as an angle
HalfTurn == 18000

\* atan2(x, z) for x = (c - cx) * z / fx with cx = 319.5 and fx = 525, to the
\* nearest hundredth of a degree; the depth z > 0 cancels
column_azimuth(c) ==
    CASE c = 86  -> -2398
      [] c = 319 -> -5
      [] c = 320 -> 5

\* valid = depth_frame > 0
valid(frame) == {c \in DOMAIN frame : frame[c] > 0}

\* an azimuth measured from the left edge of the half plane in front of the
\* camera, so that straight ahead is a quarter turn
rotate_wrap_from_left(azimuth, yaw) == (azimuth + 100 * yaw + 9000) % HalfTurn

\* arctan2(x_rot, z_rot) % pi for a point of the given azimuth: rotating
\* (x, z) by angle_y adds angle_y to the azimuth, and the remainder lies in
\* [0, pi)
rotate_wrap(azimuth, yaw) == (azimuth + 100 * yaw) % HalfTurn

theta_point(c, yaw) == rotate_wrap(column_azimuth(c), yaw)

\* (theta >= theta_min) & (theta < theta_max) for sector i, counted from 0,
\* of n: i * pi / n <= theta < (i + 1) * pi / n
in_sector(theta, n, i) == theta * n >= i * HalfTurn /\ theta * n < (i + 1) * HalfTurn

\* the valid points of sector i
mask_sector(frame, yaw, n, i) ==
    {c \in valid(frame) : in_sector(theta_point(c, yaw), n, i)}

\* np.min
Min(S) == CHOOSE m \in S : \A x \in S : m <= x

\* enumerate(self.sector_labels): the index of a label, counted from 0
sector_index(label) == (CHOOSE k \in 1..Len(sector_labels) : sector_labels[k] = label) - 1

\* a sector at or below the threshold counted as obstructed
analyze_sectors_le(frame, yaw, n) ==
    IF frame = NoFrame
    THEN [label \in Labels |-> "Low"]
    ELSE [label \in Labels |->
            LET points == mask_sector(frame, yaw, n, sector_index(label))
            IN  IF points # {}
                THEN IF Min({frame[c] : c \in points}) <= threshold_distance
                     THEN "High" ELSE "Low"
                ELSE "Low"]

\* a classifier that treats an absent frame as an obstacle everywhere
analyze_sectors_fail_closed(frame, yaw, n) ==
    IF frame = NoFrame
    THEN [label \in Labels |-> "High"]
    ELSE [label \in Labels |->
            LET points == mask_sector(frame, yaw, n, sector_index(label))
            IN  IF points # {}
                THEN IF Min({frame[c] : c \in points}) < threshold_distance
                     THEN "High" ELSE "Low"
                ELSE "Low"]

\* analyze_sectors(depth_frame) with self.angle_y = yaw and self.num_sectors = n
analyze_sectors(frame, yaw, n) ==
    IF frame = NoFrame
    THEN [label \in Labels |-> "Low"]
    ELSE [label \in Labels |->
            LET points == mask_sector(frame, yaw, n, sector_index(label))
            IN  IF points # {}
                THEN IF Min({frame[c] : c \in points}) < threshold_distance
                     THEN "High" ELSE "Low"
                ELSE "Low"]

\* the latest cycle seen against the one before it: "none" when no sector is
\* obstructed, "first" when an obstacle appears right after a cycle that had
\* none and returned a command, "repeat" otherwise
Sighting(prev_status, prev_command, status) ==
    IF is_all_clear(status) THEN "none"
    ELSE IF prev_command # None /\ is_all_clear(prev_status) THEN "first"
    ELSE "repeat"

\* the turn chosen with the right-hand sectors looked at first
choose_turn_right_first(v, status) ==
    IF status["Kanan"] = "High" \/ status["Kanan-Depan"] = "High"
    THEN "LEFT"
    ELSE IF status["Kiri"] = "High" \/ status["Kiri-Depan"] = "High"
    THEN "RIGHT"
    ELSE IF status["Tengah"] = "High"
    THEN IF status["Kiri-Depan"] = "Low" THEN "LEFT" ELSE "RIGHT"
    ELSE v.turn_direction

\* the turn chosen with a pending direction kept when only the centre sector
\* is obstructed
choose_turn_sticky(v, status) ==
    IF status["Kiri"] = "High" \/ status["Kiri-Depan"] = "High"
    THEN "RIGHT"
    ELSE IF status["Kanan"] = "High" \/ status["Kanan-Depan"] = "High"
    THEN "LEFT"
    ELSE IF status["Tengah"] = "High"
    THEN IF v.turn_direction \in {"LEFT", "RIGHT"}
         THEN v.turn_direction
         ELSE IF status["Kiri-Depan"] = "Low" THEN "LEFT" ELSE "RIGHT"
    ELSE v.turn_direction

\* the turn chosen without the rule for the centre sector
choose_turn_sides_only(v, status) ==
    IF status["Kiri"] = "High" \/ status["Kiri-Depan"] = "High"
    THEN "RIGHT"
    ELSE IF status["Kanan"] = "High" \/ status["Kanan-Depan"] = "High"
    THEN "LEFT"
    ELSE v.turn_direction

\* the turn chosen with the rule for the centre sector tried first
choose_turn_centre_first(v, status) ==
    IF status["Tengah"] = "High"
    THEN IF status["Kiri-Depan"] = "Low" THEN "LEFT" ELSE "RIGHT"
    ELSE IF status["Kiri"] = "High" \/ status["Kiri-Depan"] = "High"
    THEN "RIGHT"
    ELSE IF status["Kanan"] = "High" \/ status["Kanan-Depan"] = "High"
    THEN "LEFT"
    ELSE v.turn_direction

\* lines 156-166 of get_vfh_command: the new value of self.turn_direction
choose_turn(v, status) ==
    IF status["Kiri"] = "High" \/ status["Kiri-Depan"] = "High"
    THEN "RIGHT"
    ELSE IF status["Kanan"] = "High" \/ status["Kanan-Depan"] = "High"
    THEN "LEFT"
    ELSE IF status["Tengah"] = "High"
    THEN IF status["Kiri-Depan"] = "Low" THEN "LEFT" ELSE "RIGHT"
    ELSE v.turn_direction

\* get_vfh_command restarting the timer in every cycle without an obstacle
get_vfh_command_reset_on_clear(v, status, t) ==
    LET elapsed == t - v.command_start_time
        obstacle_detected == \E l \in Labels : status[l] = "High"
        turn == choose_turn(v, status)
    IN  IF ~obstacle_detected
        THEN [v EXCEPT !.current_command = "FORWARD",
                       !.command_start_time = t]
        ELSE IF v.current_command = "FORWARD"
        THEN IF elapsed >= forward_duration
             THEN [v EXCEPT !.turn_direction = turn,
                            !.current_command = turn,
                            !.command_start_time = t]
             ELSE [v EXCEPT !.turn_direction = turn]
        ELSE IF v.current_command \in {"LEFT", "RIGHT"}
        THEN IF elapsed >= turn_duration
             THEN [v EXCEPT !.turn_direction = turn,
                            !.current_command = "FORWARD",
                            !.command_start_time = t]
             ELSE [v EXCEPT !.turn_direction = turn]
        ELSE [v EXCEPT !.turn_direction = turn]

\* get_vfh_command leaving FORWARD only after more than forward_duration
get_vfh_command_strict(v, status, t) ==
    LET elapsed == t - v.command_start_time
        obstacle_detected == \E l \in Labels : status[l] = "High"
        turn == choose_turn(v, status)
    IN  IF ~obstacle_detected
        THEN IF v.current_command # "FORWARD"
             THEN [v EXCEPT !.current_command = "FORWARD",
                            !.command_start_time = t]
             ELSE v
        ELSE IF v.current_command = "FORWARD"
        THEN IF elapsed > forward_duration
             THEN [v EXCEPT !.turn_direction = turn,
                            !.current_command = turn,
                            !.command_start_time = t]
             ELSE [v EXCEPT !.turn_direction = turn]
        ELSE IF v.current_command \in {"LEFT", "RIGHT"}
        THEN IF elapsed >= turn_duration
             THEN [v EXCEPT !.turn_direction = turn,
                            !.current_command = "FORWARD",
                            !.command_start_time = t]
             ELSE [v EXCEPT !.turn_direction = turn]
        ELSE [v EXCEPT !.turn_direction = turn]

\* get_vfh_command keeping a turn for as long as a sector is obstructed
get_vfh_command_turn_until_clear(v, status, t) ==
    LET elapsed == t - v.command_start_time
        obstacle_detected == \E l \in Labels : status[l] = "High"
        turn == choose_turn(v, status)
    IN  IF ~obstacle_detected
        THEN IF v.current_command # "FORWARD"
             THEN [v EXCEPT !.current_command = "FORWARD",
                            !.command_start_time = t]
             ELSE v
        ELSE IF v.current_command = "FORWARD"
        THEN IF elapsed >= forward_duration
             THEN [v EXCEPT !.turn_direction = turn,
                            !.current_command = turn,
                            !.command_start_time = t]
             ELSE [v EXCEPT !.turn_direction = turn]
        ELSE [v EXCEPT !.turn_direction = turn]

\* get_vfh_command finishing a turn before it goes back to FORWARD on a
\* clear path
get_vfh_command_finish_turn(v, status, t) ==
    LET elapsed == t - v.command_start_time
        obstacle_detected == \E l \in Labels : status[l] = "High"
        turn == choose_turn(v, status)
    IN  IF ~obstacle_detected
        THEN IF v.current_command # "FORWARD" /\ elapsed >= turn_duration
             THEN [v EXCEPT !.current_command = "FORWARD",
                            !.command_start_time = t]
             ELSE v
        ELSE IF v.current_command = "FORWARD"
        THEN IF elapsed >= forward_duration
             THEN [v EXCEPT !.turn_direction = turn,
                            !.current_command = turn,
                            !.command_start_time = t]
             ELSE [v EXCEPT !.turn_direction = turn]
        ELSE IF v.current_command \in {"LEFT", "RIGHT"}
        THEN IF elapsed >= turn_duration
             THEN [v EXCEPT !.turn_direction = turn,
                            !.current_command = "FORWARD",
                            !.command_start_time = t]
             ELSE [v EXCEPT !.turn_direction = turn]
        ELSE [v EXCEPT !.turn_direction = turn]

\* a controller that follows the sector pattern at once while it is turning
get_vfh_command_redirects(v, status, t) ==
    LET elapsed == t - v.command_start_time
        obstacle_detected == \E l \in Labels : status[l] = "High"
        turn == choose_turn(v, status)
    IN  IF ~obstacle_detected
        THEN IF v.current_command # "FORWARD"
             THEN [v EXCEPT !.current_command = "FORWARD",
                            !.command_start_time = t]
             ELSE v
        ELSE IF v.current_command = "FORWARD"
        THEN IF elapsed >= forward_duration
             THEN [v EXCEPT !.turn_direction = turn,
                            !.current_command = turn,
                            !.command_start_time = t]
             ELSE [v EXCEPT !.turn_direction = turn]
        ELSE IF elapsed >= turn_duration
        THEN [v EXCEPT !.turn_direction = turn,
                       !.current_command = "FORWARD",
                       !.command_start_time = t]
        ELSE [v EXCEPT !.turn_direction = turn,
                       !.current_command = turn]

\* a controller that, when a turn's dwell ends, starts the opposite turn if
\* the sectors call for it
get_vfh_command_turn_to_turn(v, status, t) ==
    LET elapsed == t - v.command_start_time
        obstacle_detected == \E l \in Labels : status[l] = "High"
        turn == choose_turn(v, status)
    IN  IF ~obstacle_detected
        THEN IF v.current_command # "FORWARD"
             THEN [v EXCEPT !.current_command = "FORWARD",
                            !.command_start_time = t]
             ELSE v
        ELSE IF v.current_command = "FORWARD"
        THEN IF elapsed >= forward_duration
             THEN [v EXCEPT !.turn_direction = turn,
                            !.current_command = turn,
                            !.command_start_time = t]
             ELSE [v EXCEPT !.turn_direction = turn]
        ELSE IF elapsed >= turn_duration
        THEN [v EXCEPT !.turn_direction = turn,
                       !.current_command = IF turn = v.current_command
                                           THEN "FORWARD" ELSE turn,
                       !.command_start_time = t]
        ELSE [v EXCEPT !.turn_direction = turn]

\* a controller that, when a turn's dwell ends with the obstacle still there,
\* starts another turn instead of going forward
get_vfh_command_keeps_turning(v, status, t) ==
    LET elapsed == t - v.command_start_time
        obstacle_detected == \E l \in Labels : status[l] = "High"
        turn == choose_turn(v, status)
    IN  IF ~obstacle_detected
        THEN IF v.current_command # "FORWARD"
             THEN [v EXCEPT !.current_command = "FORWARD",
                            !.command_start_time = t]
             ELSE v
        ELSE IF v.current_command = "FORWARD"
        THEN IF elapsed >= forward_duration
             THEN [v EXCEPT !.turn_direction = turn,
                            !.current_command = turn,
                            !.command_start_time = t]
             ELSE [v EXCEPT !.turn_direction = turn]
        ELSE IF elapsed >= turn_duration
        THEN [v EXCEPT !.turn_direction = turn,
                       !.command_start_time = t]
        ELSE [v EXCEPT !.turn_direction = turn]

\* get_vfh_command(sector_status) with time.time() reading t; the value
\* returned is the current_command of the result
get_vfh_command(v, status, t) ==
    LET elapsed == t - v.command_start_time
        obstacle_detected == \E l \in Labels : status[l] = "High"
        turn == choose_turn(v, status)
    IN  IF ~obstacle_detected
        THEN IF v.current_command # "FORWARD"
             THEN [v EXCEPT !.current_command = "FORWARD",
                            !.command_start_time = t]
             ELSE v
        ELSE IF v.current_command = "FORWARD"
        THEN IF elapsed >= forward_duration
             THEN [v EXCEPT !.turn_direction = turn,
                            !.current_command = turn,
                            !.command_start_time = t]
             ELSE [v EXCEPT !.turn_direction = turn]
        ELSE IF v.current_command \in {"LEFT", "RIGHT"}
        THEN IF elapsed >= turn_duration
             THEN [v EXCEPT !.turn_direction = turn,
                            !.current_command = "FORWARD",
                            !.command_start_time = t]
             ELSE [v EXCEPT !.turn_direction = turn]
        ELSE [v EXCEPT !.turn_direction = turn]

\* ---------------------------------------------------------------------------
\* ArucoTracker: tracking mapper
\* ---------------------------------------------------------------------------
Zones == {"LEFT", "CENTER", "RIGHT"}

\* calculate_distance() returning None: no valid depth sample at the marker
NoDistance == -1

\* distances calculate_distance may report
Distances == {NoDistance, 3, 5, 7}

\* detect(): the result when no marker is found
NotDetected == [detected |-> FALSE, zone |-> None, distance |-> NoDistance]

\* detect() followed by calculate_distance(): the results the loop can see
Observations ==
    {NotDetected} \cup
    {[detected |-> TRUE, zone |-> z, distance |-> d] : z \in Zones, d \in Distances}

\* a tracker steering to the side the marker is seen on
get_tracking_command_same_side(detection_result) ==
    IF ~detection_result.detected
    THEN None
    ELSE IF detection_result.zone = "LEFT"
    THEN "LEFT"
    ELSE IF detection_result.zone = "RIGHT"
    THEN "RIGHT"
    ELSE "FORWARD"

\* ArucoTracker.get_tracking_command
get_tracking_command(detection_result) ==
    IF ~detection_result.detected
    THEN None
    ELSE IF detection_result.zone = "LEFT"
    THEN "RIGHT"
    ELSE IF detection_result.zone = "RIGHT"
    THEN "LEFT"
    ELSE "FORWARD"

\* ---------------------------------------------------------------------------
\* RobotController: arbiter
\* ---------------------------------------------------------------------------
ARUCO_APPROACH_DISTANCE == 5

ForceModes == {None, "VFH_ONLY", "ARUCO_ONLY"}

\* decision_logic looking at the marker before the sectors in hybrid mode
decision_logic_goal_first(fm, clear, status, vfh_cmd, result, aruco_cmd) ==
    IF fm = "VFH_ONLY"
    THEN [command |-> vfh_cmd, mode |-> "VFH_ACTIVE"]
    ELSE IF fm = "ARUCO_ONLY"
    THEN IF result.detected
         THEN [command |-> aruco_cmd, mode |-> "ARUCO_TRACKING"]
         ELSE [command |-> "STOP", mode |-> "SEARCH"]
    ELSE IF result.detected /\ result.distance # NoDistance
                            /\ result.distance < ARUCO_APPROACH_DISTANCE
    THEN [command |-> "STOP", mode |-> "ARUCO_REACHED"]
    ELSE IF ~clear
    THEN [command |-> vfh_cmd, mode |-> "VFH_ACTIVE"]
    ELSE IF result.detected
    THEN [command |-> aruco_cmd, mode |-> "ARUCO_TRACKING"]
    ELSE [command |-> "STOP", mode |-> "SEARCH"]

\* decision_logic returning the tracking command under ARUCO_ONLY without
\* looking at the detection flag
decision_logic_trusts_tracker(fm, clear, status, vfh_cmd, result, aruco_cmd) ==
    IF fm = "VFH_ONLY"
    THEN [command |-> vfh_cmd, mode |-> "VFH_ACTIVE"]
    ELSE IF fm = "ARUCO_ONLY"
    THEN [command |-> aruco_cmd, mode |-> "ARUCO_TRACKING"]
    ELSE IF ~clear
    THEN [command |-> vfh_cmd, mode |-> "VFH_ACTIVE"]
    ELSE IF result.detected
    THEN IF result.distance # NoDistance /\ result.distance < ARUCO_APPROACH_DISTANCE
         THEN [command |-> "STOP", mode |-> "ARUCO_REACHED"]
         ELSE [command |-> aruco_cmd, mode |-> "ARUCO_TRACKING"]
    ELSE [command |-> "STOP", mode |-> "SEARCH"]

\* decision_logic applying the approach rule under ARUCO_ONLY as well
decision_logic_reached_everywhere(fm, clear, status, vfh_cmd, result, aruco_cmd) ==
    IF fm = "VFH_ONLY"
    THEN [command |-> vfh_cmd, mode |-> "VFH_ACTIVE"]
    ELSE IF fm # "ARUCO_ONLY" /\ ~clear
    THEN [command |-> vfh_cmd, mode |-> "VFH_ACTIVE"]
    ELSE IF result.detected
    THEN IF result.distance # NoDistance /\ result.distance < ARUCO_APPROACH_DISTANCE
         THEN [command |-> "STOP", mode |-> "ARUCO_REACHED"]
         ELSE [command |-> aruco_cmd, mode |-> "ARUCO_TRACKING"]
    ELSE [command |-> "STOP", mode |-> "SEARCH"]

\* decision_logic stopping at the approach distance itself
decision_logic_le(fm, clear, status, vfh_cmd, result, aruco_cmd) ==
    IF fm = "VFH_ONLY"
    THEN [command |-> vfh_cmd, mode |-> "VFH_ACTIVE"]
    ELSE IF fm = "ARUCO_ONLY"
    THEN IF result.detected
         THEN [command |-> aruco_cmd, mode |-> "ARUCO_TRACKING"]
         ELSE [command |-> "STOP", mode |-> "SEARCH"]
    ELSE IF ~clear
    THEN [command |-> vfh_cmd, mode |-> "VFH_ACTIVE"]
    ELSE IF result.detected
    THEN IF result.distance # NoDistance /\ result.distance <= ARUCO_APPROACH_DISTANCE
         THEN [command |-> "STOP", mode |-> "ARUCO_REACHED"]
         ELSE [command |-> aruco_cmd, mode |-> "ARUCO_TRACKING"]
    ELSE [command |-> "STOP", mode |-> "SEARCH"]

\* decision_logic honouring VFH_ONLY only while a sector is obstructed
decision_logic_vfh_only_when_blocked(fm, clear, status, vfh_cmd, result, aruco_cmd) ==
    IF fm = "ARUCO_ONLY"
    THEN IF result.detected
         THEN [command |-> aruco_cmd, mode |-> "ARUCO_TRACKING"]
         ELSE [command |-> "STOP", mode |-> "SEARCH"]
    ELSE IF ~clear
    THEN [command |-> vfh_cmd, mode |-> "VFH_ACTIVE"]
    ELSE IF result.detected
    THEN IF result.distance # NoDistance /\ result.distance < ARUCO_APPROACH_DISTANCE
         THEN [command |-> "STOP", mode |-> "ARUCO_REACHED"]
         ELSE [command |-> aruco_cmd, mode |-> "ARUCO_TRACKING"]
    ELSE [command |-> "STOP", mode |-> "SEARCH"]

\* decision_logic: the command returned and the value left in self.mode
decision_logic(fm, clear, status, vfh_cmd, result, aruco_cmd) ==
    IF fm = "VFH_ONLY"
    THEN [command |-> vfh_cmd, mode |-> "VFH_ACTIVE"]
    ELSE IF fm = "ARUCO_ONLY"
    THEN IF result.detected
         THEN [command |-> aruco_cmd, mode |-> "ARUCO_TRACKING"]
         ELSE [command |-> "STOP", mode |-> "SEARCH"]
    ELSE IF ~clear
    THEN [command |-> vfh_cmd, mode |-> "VFH_ACTIVE"]
    ELSE IF result.detected
    THEN IF result.distance # NoDistance /\ result.distance < ARUCO_APPROACH_DISTANCE
         THEN [command |-> "STOP", mode |-> "ARUCO_REACHED"]
         ELSE [command |-> aruco_cmd, mode |-> "ARUCO_TRACKING"]
    ELSE [command |-> "STOP", mode |-> "SEARCH"]

\* ---------------------------------------------------------------------------
\* RobotController: control loop
\* ---------------------------------------------------------------------------
\* sector statuses, clock steps and marker observations fed to the control loop
LoopStatuses == {AllLow, [AllLow EXCEPT !["Kiri-Depan"] = "High"]}

LoopDts == {0, forward_duration}

LoopObservations == {NotDetected, [detected |-> TRUE, zone |-> "LEFT", distance |-> 3]}

Keys == {"q", "1", "2", "3", " ", "none"}

\* avoidance states the controller can be in when a cycle begins
VfhStates ==
    {[current_command |-> c, command_start_time |-> 0, turn_direction |-> d] :
        c \in {"FORWARD"}, d \in {None, "LEFT", "RIGHT"}}
    \cup
    {[current_command |-> c, command_start_time |-> 0, turn_direction |-> d] :
        c \in {"LEFT", "RIGHT"}, d \in {"LEFT", "RIGHT"}}

\* RobotController.__init__, with the objects it constructs
Init ==
    /\ arduino \in {connect(ArduinoNew, ok) : ok \in BOOLEAN}
    /\ vfh = VfhNew(0)
    /\ now = 0
    /\ pc = "acquire"
    /\ mode = "INIT"
    /\ current_command = "STOP"
    /\ force_mode = None
    /\ sector_status = AllLow
    /\ path_clear = TRUE
    /\ vfh_command = None
    /\ aruco_result = NotDetected
    /\ aruco_command = None
    /\ final_command = None
    /\ sighting = "none"
    /\ stop_only = TRUE
    /\ shutdown = ArduinoNew
    /\ depth_frame = NoFrame
    /\ angle_y = 0
    /\ num_sectors = 5
    /\ quit_requested = FALSE
    /\ skipped = FALSE

\* a loop that halts the robot when the frames are missing
SkipFrame_stops ==
    /\ pc = "acquire"
    /\ skipped' = TRUE
    /\ Len(arduino.link) < MaxLink
    /\ \E ok \in BOOLEAN : arduino' = send_command(arduino, "STOP", ok)
    /\ current_command' = "STOP"
    /\ UNCHANGED <<vfh, now, loop_vars, pc, mode, force_mode, shutdown, cam_vars,
                   quit_requested>>

\* run(), lines 88-92: get_frames() fails and the iteration is skipped
SkipFrame ==
    /\ pc = "acquire"
    /\ skipped' = TRUE
    /\ UNCHANGED <<arduino, vfh, now, loop_vars, ctl_vars, cam_vars, quit_requested>>

\* run(), lines 88-117: frames, sectors, avoidance, marker, arbitration
SenseWith(statuses, dts, observations) ==
    /\ pc = "acquire"
    /\ Len(arduino.link) < MaxLink
    /\ \E status \in statuses, dt \in dts, obs \in observations :
          /\ now + dt <= MaxTime
          /\ now' = now + dt
          /\ vfh' = get_vfh_command(vfh, status, now + dt)
          /\ sector_status' = status
          /\ path_clear' = is_all_clear(status)
          /\ vfh_command' = vfh'.current_command
          /\ sighting' = Sighting(sector_status, vfh_command, status)
          /\ aruco_result' = obs
          /\ aruco_command' = get_tracking_command(obs)
          /\ LET d == decision_logic(force_mode, path_clear', status,
                                     vfh_command', obs, aruco_command')
             IN  /\ final_command' = d.command
                 /\ mode' = d.mode
                 /\ stop_only' = (stop_only /\ d.command = "STOP")
    /\ pc' = "dispatch"
    /\ skipped' = FALSE
    /\ UNCHANGED <<cam_vars, quit_requested, arduino, current_command, force_mode,
                   shutdown>>

Sense == SenseWith(LoopStatuses, LoopDts, LoopObservations)

\* a loop that records the final command only when its send succeeded
Dispatch_records_on_success ==
    /\ pc = "dispatch"
    /\ IF final_command # current_command
       THEN \E ok \in BOOLEAN :
               /\ arduino' = send_command(arduino, final_command, ok)
               /\ current_command' = IF arduino'.sent THEN final_command
                                     ELSE current_command
       ELSE UNCHANGED <<arduino, current_command>>
    /\ pc' = "key"
    /\ UNCHANGED <<cam_vars, op_vars, vfh, now, loop_vars, mode, force_mode, shutdown>>

\* run(), lines 119-122
Dispatch ==
    /\ pc = "dispatch"
    /\ IF final_command # current_command
       THEN /\ \E ok \in BOOLEAN :
                  arduino' = send_command(arduino, final_command, ok)
            /\ current_command' = final_command
       ELSE UNCHANGED <<arduino, current_command>>
    /\ pc' = "key"
    /\ UNCHANGED <<cam_vars, op_vars, vfh, now, loop_vars, mode, force_mode, shutdown>>

\* a keyboard handler whose emergency stop also records STOP as the
\* controller's current command
HandleKeyboard_records_stop ==
    /\ pc = "key"
    /\ \E key \in IF quit_requested THEN {"q"} ELSE Keys \ {"q"} :
          /\ pc' = IF key = "q" THEN "cleanup" ELSE "acquire"
          /\ force_mode' = CASE key = "1" -> "VFH_ONLY"
                             [] key = "2" -> "ARUCO_ONLY"
                             [] key = "3" -> None
                             [] OTHER -> force_mode
          /\ IF key = " "
             THEN /\ \E ok \in BOOLEAN : arduino' = send_command(arduino, "STOP", ok)
                  /\ current_command' = "STOP"
             ELSE UNCHANGED <<arduino, current_command>>
    /\ quit_requested' = FALSE
    /\ UNCHANGED <<cam_vars, skipped, vfh, now, loop_vars, mode, shutdown>>

\* run(), lines 143-145, with handle_keyboard(key)
HandleKeyboard ==
    /\ pc = "key"
    /\ \E key \in IF quit_requested THEN {"q"} ELSE Keys \ {"q"} :
          /\ pc' = IF key = "q" THEN "cleanup" ELSE "acquire"
          /\ force_mode' = CASE key = "1" -> "VFH_ONLY"
                             [] key = "2" -> "ARUCO_ONLY"
                             [] key = "3" -> None
                             [] OTHER -> force_mode
          /\ IF key = " "
             THEN \E ok \in BOOLEAN : arduino' = send_command(arduino, "STOP", ok)
             ELSE UNCHANGED arduino
    /\ quit_requested' = FALSE
    /\ UNCHANGED <<cam_vars, skipped, vfh, now, loop_vars, mode, current_command,
                   shutdown>>

\* the operator presses q while the loop runs; the key waits for the next
\* cv2.waitKey (line 143)
PressQuit ==
    /\ pc \in {"acquire", "dispatch", "key"}
    /\ ~quit_requested
    /\ quit_requested' = TRUE
    /\ UNCHANGED <<arduino, vfh, now, loop_vars, ctl_vars, cam_vars, skipped>>

\* run(), lines 151-157: KeyboardInterrupt or another exception ends the loop
LoopRaises ==
    /\ pc \in {"acquire", "dispatch", "key"}
    /\ pc' = "cleanup"
    /\ UNCHANGED <<cam_vars, op_vars, arduino, vfh, now, loop_vars, mode, current_command,
                   force_mode, shutdown>>

\* cleanup going straight to close(), without its own send of STOP
Cleanup_close_only ==
    /\ pc = "cleanup"
    /\ shutdown' = arduino
    /\ \E ok2 \in BOOLEAN : arduino' = close(arduino, ok2)
    /\ pc' = "done"
    /\ UNCHANGED <<cam_vars, op_vars, vfh, now, loop_vars, mode, current_command,
                   force_mode>>

\* run(), line 160: cleanup()
Cleanup ==
    /\ pc = "cleanup"
    /\ shutdown' = arduino
    /\ \E ok1 \in BOOLEAN, ok2 \in BOOLEAN :
          arduino' = close(send_command(arduino, "STOP", ok1), ok2)
    /\ pc' = "done"
    /\ UNCHANGED <<cam_vars, op_vars, vfh, now, loop_vars, mode, current_command,
                   force_mode>>

Next ==
    SkipFrame \/ Sense \/ Dispatch \/ PressQuit \/ HandleKeyboard \/ LoopRaises \/ Cleanup

Spec == Init /\ [][Next]_vars

\* ---------------------------------------------------------------------------
\* The dispatcher on its own, driven by any caller
\* ---------------------------------------------------------------------------
SendCommand ==
    /\ Len(arduino.link) < MaxLink
    /\ \E command \in valid_commands \cup InvalidCommands, ok \in BOOLEAN :
          arduino' = send_command(arduino, command, ok)
    /\ UNCHANGED <<cam_vars, op_vars, vfh, now, loop_vars, ctl_vars>>

Close ==
    /\ Len(arduino.link) < MaxLink
    /\ \E ok \in BOOLEAN : arduino' = close(arduino, ok)
    /\ UNCHANGED <<cam_vars, op_vars, vfh, now, loop_vars, ctl_vars>>

Reconnect ==
    /\ Len(arduino.link) < MaxLink
    /\ \E ok \in BOOLEAN, reopened \in BOOLEAN :
          arduino' = reconnect(arduino, ok, reopened)
    /\ UNCHANGED <<cam_vars, op_vars, vfh, now, loop_vars, ctl_vars>>

NextComm == SendCommand \/ Close \/ Reconnect

SpecComm == Init /\ [][NextComm]_vars

\* ---------------------------------------------------------------------------
\* The avoidance controller on its own, fed any sector status at any time
\* ---------------------------------------------------------------------------
VfhStep ==
    /\ \E status \in SectorStatuses, dt \in 0..MaxDt :
          /\ now + dt <= MaxTime
          /\ now' = now + dt
          /\ vfh' = get_vfh_command(vfh, status, now + dt)
          /\ sector_status' = status
          /\ path_clear' = is_all_clear(status)
          /\ vfh_command' = vfh'.current_command
          /\ sighting' = Sighting(sector_status, vfh_command, status)
    /\ UNCHANGED <<cam_vars, op_vars, arduino, aruco_result, aruco_command,
                   final_command, stop_only, ctl_vars>>

NextVfh == VfhStep

SpecVfh == Init /\ [][NextVfh]_vars

\* ---------------------------------------------------------------------------
\* One arbitration, over every override, avoidance state, sector status,
\* clock step and marker observation
\* ---------------------------------------------------------------------------
InitArbiter ==
    /\ arduino \in {connect(ArduinoNew, ok) : ok \in BOOLEAN}
    /\ vfh \in VfhStates
    /\ now = 0
    /\ pc = "acquire"
    /\ mode = "INIT"
    /\ current_command = "STOP"
    /\ force_mode \in ForceModes
    /\ sector_status = AllLow
    /\ path_clear = TRUE
    /\ vfh_command = None
    /\ aruco_result = NotDetected
    /\ aruco_command = None
    /\ final_command = None
    /\ sighting = "none"
    /\ stop_only = TRUE
    /\ shutdown = ArduinoNew
    /\ depth_frame = NoFrame
    /\ angle_y = 0
    /\ num_sectors = 5
    /\ quit_requested = FALSE
    /\ skipped = FALSE

Arbitrate == SenseWith(SectorStatuses, 0..MaxDt, Observations)

NextArbiter == Arbitrate

SpecArbiter == InitArbiter /\ [][NextArbiter]_vars

\* ---------------------------------------------------------------------------
\* The sector classifier on its own: any frame, under any view the
\* rotate-view keys reach, for each sector count
\* ---------------------------------------------------------------------------
InitSectors ==
    /\ arduino = connect(ArduinoNew, FALSE)
    /\ vfh = VfhNew(0)
    /\ now = 0
    /\ pc = "acquire"
    /\ mode = "INIT"
    /\ current_command = "STOP"
    /\ force_mode = None
    /\ sector_status = AllLow
    /\ path_clear = TRUE
    /\ vfh_command = None
    /\ aruco_result = NotDetected
    /\ aruco_command = None
    /\ final_command = None
    /\ sighting = "none"
    /\ stop_only = TRUE
    /\ shutdown = ArduinoNew
    /\ depth_frame = NoFrame
    /\ angle_y = 0
    /\ num_sectors \in NumSectors
    /\ quit_requested = FALSE
    /\ skipped = FALSE

\* analyze_sectors and is_all_clear on a frame, absent or present
AnalyzeSectors ==
    /\ \E frame \in Frames \cup {NoFrame} :
          /\ depth_frame' = frame
          /\ sector_status' = analyze_sectors(frame, angle_y, num_sectors)
          /\ path_clear' = is_all_clear(sector_status')
    /\ UNCHANGED <<arduino, vfh, now, vfh_command, aruco_result, aruco_command,
                   final_command, sighting, stop_only, ctl_vars, angle_y, num_sectors,
                   op_vars>>

\* the rotate-view keys: angle_y -= 5, angle_y += 5
RotateView ==
    /\ \E step \in {-5, 5} :
          /\ angle_y + step <= 5 * MaxTurns
          /\ angle_y + step >= -5 * MaxTurns
          /\ angle_y' = angle_y + step
    /\ UNCHANGED <<arduino, vfh, now, loop_vars, ctl_vars, depth_frame, num_sectors,
                   op_vars>>

NextSectors == AnalyzeSectors \/ RotateView

SpecSectors == InitSectors /\ [][NextSectors]_vars

\* ---------------------------------------------------------------------------
\* The avoidance controller in front of an obstacle that never goes away,
\* with the clock advancing between any two cycles.  get_vfh_command reads the
\* clock only through now - command_start_time (line 144), so the clock is
\* kept relative to command_start_time and runs without an upper limit.
\* ---------------------------------------------------------------------------
InitPersist ==
    /\ arduino = connect(ArduinoNew, FALSE)
    /\ vfh \in VfhStates
    /\ now = 0
    /\ pc = "acquire"
    /\ mode = "INIT"
    /\ current_command = "STOP"
    /\ force_mode = None
    /\ sector_status = AllLow
    /\ path_clear = TRUE
    /\ vfh_command = None
    /\ aruco_result = NotDetected
    /\ aruco_command = None
    /\ final_command = None
    /\ sighting = "none"
    /\ stop_only = TRUE
    /\ shutdown = ArduinoNew
    /\ depth_frame = NoFrame
    /\ angle_y = 0
    /\ num_sectors = 5
    /\ quit_requested = FALSE
    /\ skipped = FALSE

PersistStep ==
    /\ \E status \in SectorStatuses \ {AllLow}, dt \in 1..MaxDt :
          LET t == now + dt
              v == get_vfh_command(vfh, status, t)
          IN  /\ vfh' = [v EXCEPT !.command_start_time = 0]
              /\ now' = t - v.command_start_time
              /\ sector_status' = status
              /\ path_clear' = is_all_clear(status)
              /\ vfh_command' = v.current_command
              /\ sighting' = Sighting(sector_status, vfh_command, status)
    /\ UNCHANGED <<cam_vars, op_vars, arduino, aruco_result, aruco_command,
                   final_command, stop_only, ctl_vars>>

NextPersist == PersistStep

SpecPersist == InitPersist /\ [][NextPersist]_vars /\ WF_vars(PersistStep)

\* ---------------------------------------------------------------------------
\* Vocabulary of the properties
\* ---------------------------------------------------------------------------
IsWrite(e) == e.kind = "write"

IsTransmission(e) == e.kind = "write" /\ e.ok

\* the commands the port has carried, oldest first
Transmissions(l) == SelectSeq(l, IsTransmission)

\* what happened on the port since cleanup began
ShutdownTail == SubSeq(arduino.link, Len(shutdown.link) + 1, Len(arduino.link))

\* the turn direction section 4.2 of the specification asks for
DesiredTurn(status) ==
    IF status["Kiri"] = "High" \/ status["Kiri-Depan"] = "High" THEN "RIGHT"
    ELSE IF status["Kanan"] = "High" \/ status["Kanan-Depan"] = "High" THEN "LEFT"
    ELSE IF status["Kiri-Depan"] = "Low" THEN "LEFT" ELSE "RIGHT"

\* ---------------------------------------------------------------------------
\* C1 - hybrid mode: with no operator override, whenever some sector is
\* obstructed the arbiter returns exactly the avoidance command and sets the
\* mode to VFH_ACTIVE, whatever the marker observation is.
\* ---------------------------------------------------------------------------
C1_ObstacleForcesAvoidance ==
    (pc = "dispatch" /\ force_mode = None /\ ~path_clear)
        => /\ final_command = vfh_command
           /\ final_command = vfh.current_command
           /\ mode = "VFH_ACTIVE"

C1_Witness ==
    /\ pc = "dispatch"
    /\ force_mode = None
    /\ ~path_clear
    /\ aruco_result = [detected |-> TRUE, zone |-> "CENTER", distance |-> 3]
    /\ final_command = "LEFT"
    /\ mode = "VFH_ACTIVE"

\* ---------------------------------------------------------------------------
\* C2 - as claimed: over any sequence of send_command, write failures,
\* reconnect and close, the port never carries the same command in two
\* consecutive transmissions.
\* ---------------------------------------------------------------------------
C2_NeverSameCommandTwice ==
    LET tx == Transmissions(arduino.link)
    IN  \A i \in 1..(Len(tx) - 1) : tx[i].cmd # tx[i + 1].cmd

\* C2 - amended: two consecutive transmissions made by send_command, with no
\* close of the port between them, never carry the same command.
C2_SendCommandNeverRepeats ==
    \A i \in DOMAIN arduino.link : \A j \in DOMAIN arduino.link :
        ( /\ i < j
          /\ IsTransmission(arduino.link[i])
          /\ IsTransmission(arduino.link[j])
          /\ arduino.link[i].by = "send_command"
          /\ arduino.link[j].by = "send_command"
          /\ \A k \in (i + 1)..(j - 1) :
                /\ ~IsTransmission(arduino.link[k])
                /\ arduino.link[k].by # "close" )
        => arduino.link[i].cmd # arduino.link[j].cmd

C2_Witness ==
    /\ Len(arduino.link) >= 3
    /\ \A i \in 1..3 : /\ IsTransmission(arduino.link[i])
                       /\ arduino.link[i].by = "send_command"
    /\ arduino.link[1].cmd = "STOP"
    /\ arduino.link[3].cmd = "STOP"

\* ---------------------------------------------------------------------------
\* C3 - shutdown: when the loop has ended and cleanup has run on an open
\* port, close has made a write of STOP on it, whatever last_command was,
\* and the port was closed only after that write; the port is then released.
\* ---------------------------------------------------------------------------
C3_ShutdownAttemptsStop ==
    (pc = "done" /\ shutdown.serial = "open")
        => /\ arduino.serial = None
           /\ SubSeq(arduino.link, 1, Len(shutdown.link)) = shutdown.link
           /\ \E i \in DOMAIN ShutdownTail :
                 /\ ShutdownTail[i] \in {Write("STOP", ok, "close") : ok \in BOOLEAN}
                 /\ \A j \in DOMAIN ShutdownTail :
                       ShutdownTail[j].kind = "port_close" => j > i

C3_Witness ==
    /\ pc = "done"
    /\ shutdown.serial = "open"
    /\ shutdown.connected
    /\ shutdown.last_command = "STOP"
    /\ ShutdownTail = <<Write("STOP", TRUE, "close"), PortClose>>

\* ---------------------------------------------------------------------------
\* C4 - as claimed: the shutdown sequence puts exactly one STOP transmission
\* on a connected port, whatever last_command was.
\* ---------------------------------------------------------------------------
C4_ExactlyOneStop ==
    ( /\ pc = "done"
      /\ shutdown.connected
      /\ shutdown.serial = "open"
      /\ \A i \in DOMAIN ShutdownTail : ShutdownTail[i].ok )
        => Len(Transmissions(ShutdownTail)) = 1

\* C4 - amended: on a connected port the shutdown sequence writes nothing
\* but STOP, once (by close) when last_command was already STOP and twice
\* (by cleanup's send_command, then by close) otherwise.
C4_OneOrTwoStops ==
    (pc = "done" /\ shutdown.connected /\ shutdown.serial = "open")
        => LET w == SelectSeq(ShutdownTail, IsWrite)
           IN  /\ \A i \in DOMAIN w : w[i].cmd = "STOP"
               /\ Len(w) = IF shutdown.last_command = "STOP" THEN 1 ELSE 2
               /\ w[Len(w)].by = "close"
               /\ Len(w) = 2 => w[1].by = "send_command"

C4_Witness ==
    /\ pc = "done"
    /\ shutdown.connected
    /\ shutdown.last_command = "FORWARD"
    /\ ShutdownTail = <<Write("STOP", TRUE, "send_command"),
                        Write("STOP", TRUE, "close"), PortClose>>

\* ---------------------------------------------------------------------------
\* C5 - as claimed: when the write of a valid command that differs from
\* last_command fails, connected becomes false and last_command becomes the
\* command that was attempted.
\* ---------------------------------------------------------------------------
C5_FailureRecordsCommand ==
    [][\A c \in valid_commands :
          ( /\ c # arduino.last_command
            /\ arduino'.link = Append(arduino.link, Write(c, FALSE, "send_command")) )
          => /\ ~arduino'.connected
             /\ arduino'.last_command = c]_vars

\* C5 - amended: when that write fails, connected becomes false, the call
\* reports failure and last_command keeps the value it had.
C5_FailureKeepsLastCommand ==
    [][\A c \in valid_commands :
          ( /\ c # arduino.last_command
            /\ arduino'.link = Append(arduino.link, Write(c, FALSE, "send_command")) )
          => /\ ~arduino'.connected
             /\ ~arduino'.sent
             /\ arduino'.serial = arduino.serial
             /\ arduino'.last_command = arduino.last_command]_vars

C5_Witness ==
    /\ Len(arduino.link) >= 2
    /\ arduino.link[Len(arduino.link) - 1] = Write("FORWARD", TRUE, "send_command")
    /\ arduino.link[Len(arduino.link)] = Write("LEFT", FALSE, "send_command")
    /\ arduino.last_command = "FORWARD"
    /\ ~arduino.connected
    /\ ~arduino.sent

\* ---------------------------------------------------------------------------
\* C6 - simulated mode: while connected is false, every send_command of a
\* valid command makes no write on the port, reports success and records the
\* command as last_command; connected stays false.
\* ---------------------------------------------------------------------------
C6_NoRetryWhileDisconnected ==
    [][\A c \in valid_commands :
          ( /\ ~arduino.connected
            /\ \E ok \in BOOLEAN : arduino' = send_command(arduino, c, ok) )
          => /\ arduino'.link = arduino.link
             /\ arduino'.sent
             /\ arduino'.last_command = c
             /\ ~arduino'.connected]_vars

C6_Witness ==
    /\ Len(arduino.link) >= 1
    /\ arduino.link[Len(arduino.link)] = Write("LEFT", FALSE, "send_command")
    /\ arduino.serial = "open"
    /\ ~arduino.connected
    /\ arduino.sent
    /\ arduino.last_command = "LEFT"

\* ---------------------------------------------------------------------------
\* C7 - validation: send_command of a value that is not one of the four
\* commands reports failure, writes nothing and leaves last_command and
\* connected as they were; last_command is always unset or a command.
\* ---------------------------------------------------------------------------
C7_InvalidCommandRejected ==
    /\ [](arduino.last_command \in valid_commands \cup {None})
    /\ [][\A x \in InvalidCommands :
             (\E ok \in BOOLEAN : arduino' = send_command(arduino, x, ok))
             => /\ ~arduino'.sent
                /\ arduino'.link = arduino.link
                /\ arduino'.last_command = arduino.last_command
                /\ arduino'.connected = arduino.connected
                /\ arduino'.serial = arduino.serial]_vars

C7_Witness ==
    /\ arduino.connected
    /\ ~arduino.sent
    /\ arduino.last_command = "RIGHT"
    /\ arduino.link = <<Write("RIGHT", TRUE, "send_command")>>

\* ---------------------------------------------------------------------------
\* C8 - dedup: send_command of the command that last_command already holds
\* writes nothing, reports success and leaves last_command and connected as
\* they were, on a connected and on a disconnected port.
\* ---------------------------------------------------------------------------
C8_DedupIsNoOp ==
    [][\A c \in valid_commands :
          ( /\ c = arduino.last_command
            /\ \E ok \in BOOLEAN : arduino' = send_command(arduino, c, ok) )
          => /\ arduino'.sent
             /\ arduino'.link = arduino.link
             /\ arduino'.last_command = arduino.last_command
             /\ arduino'.connected = arduino.connected
             /\ arduino'.serial = arduino.serial]_vars

C8_Witness ==
    /\ Len(arduino.link) = 2
    /\ arduino.link[1] = Write("STOP", TRUE, "send_command")
    /\ arduino.link[2] = Write("RIGHT", FALSE, "send_command")
    /\ ~arduino.connected
    /\ arduino.last_command = "STOP"
    /\ arduino.sent

\* ---------------------------------------------------------------------------
\* C9 - as claimed: in the cycle in which an obstacle is first seen after a
\* cycle without one, the controller still returns FORWARD.
\* ---------------------------------------------------------------------------
C9_FirstSightingKeepsForward ==
    sighting = "first" => vfh_command = "FORWARD"

\* C9 - amended: a cycle without an obstacle leaves the timer of a FORWARD
\* command running, and in the cycle in which an obstacle is first seen the
\* controller returns FORWARD only if less than forward_duration has passed
\* on that timer; otherwise it turns in that very cycle.
C9_FirstSightingUsesRunningTimer ==
    [][/\ (sighting' = "none" /\ vfh.current_command = "FORWARD")
          => /\ vfh'.command_start_time = vfh.command_start_time
             /\ vfh_command' = "FORWARD"
       /\ sighting' = "first"
          => /\ vfh.current_command = "FORWARD"
             /\ IF now' - vfh.command_start_time < forward_duration
                THEN /\ vfh_command' = "FORWARD"
                     /\ vfh'.command_start_time = vfh.command_start_time
                ELSE /\ vfh_command' = DesiredTurn(sector_status')
                     /\ vfh'.command_start_time = now']_vars

C9_Witness ==
    /\ sighting = "first"
    /\ vfh_command = "RIGHT"
    /\ vfh.command_start_time = now
    /\ now = forward_duration

\* ---------------------------------------------------------------------------
\* C10 - forward to turn: with some sector obstructed and current_command
\* FORWARD, the step switches to the desired turn and restarts the timer
\* exactly when forward_duration or more has passed, and otherwise returns
\* FORWARD and leaves the timer alone.
\* ---------------------------------------------------------------------------
C10_ForwardToTurn ==
    [][(~is_all_clear(sector_status') /\ vfh.current_command = "FORWARD")
          => IF now' - vfh.command_start_time >= forward_duration
             THEN /\ vfh'.current_command = DesiredTurn(sector_status')
                  /\ vfh_command' = DesiredTurn(sector_status')
                  /\ vfh'.command_start_time = now'
             ELSE /\ vfh'.current_command = "FORWARD"
                  /\ vfh_command' = "FORWARD"
                  /\ vfh'.command_start_time = vfh.command_start_time]_vars

C10_Witness ==
    /\ sector_status = [AllLow EXCEPT !["Kiri-Depan"] = "High"]
    /\ now = 5
    /\ vfh_command = "RIGHT"
    /\ vfh.command_start_time = 5
    /\ sighting = "repeat"

\* ---------------------------------------------------------------------------
\* C11 - turn to forward: with some sector obstructed and current_command
\* LEFT or RIGHT, the step switches to FORWARD and restarts the timer as soon
\* as turn_duration or more has passed, although the obstacle is still
\* there; before that the turn and its timer are kept.
\* ---------------------------------------------------------------------------
C11_TurnToForward ==
    [][(~is_all_clear(sector_status') /\ vfh.current_command \in {"LEFT", "RIGHT"})
          => IF now' - vfh.command_start_time >= turn_duration
             THEN /\ vfh'.current_command = "FORWARD"
                  /\ vfh_command' = "FORWARD"
                  /\ vfh'.command_start_time = now'
             ELSE /\ vfh'.current_command = vfh.current_command
                  /\ vfh_command' = vfh.current_command
                  /\ vfh'.command_start_time = vfh.command_start_time]_vars

C11_Witness ==
    /\ sighting = "repeat"
    /\ ~path_clear
    /\ vfh_command = "FORWARD"
    /\ vfh.command_start_time = now
    /\ now = forward_duration + turn_duration

\* ---------------------------------------------------------------------------
\* C12 - clear path: a step with no sector obstructed returns FORWARD
\* whatever the command and the elapsed time were; the timer is restarted
\* when the command was not FORWARD and left alone when it was.
\* ---------------------------------------------------------------------------
C12_ClearPathGoesForward ==
    [][is_all_clear(sector_status')
          => /\ vfh'.current_command = "FORWARD"
             /\ vfh_command' = "FORWARD"
             /\ vfh'.turn_direction = vfh.turn_direction
             /\ vfh'.command_start_time =
                   IF vfh.current_command # "FORWARD"
                   THEN now'
                   ELSE vfh.command_start_time]_vars

\* a turn begun at 0.4 s is given up at 0.5 s, before turn_duration is over
C12_Witness ==
    /\ path_clear
    /\ sighting = "none"
    /\ vfh_command = "FORWARD"
    /\ vfh.turn_direction = "RIGHT"
    /\ vfh.command_start_time = forward_duration + 1
    /\ now = forward_duration + 1

\* ---------------------------------------------------------------------------
\* C13 - turn direction: after a step that saw an obstructed sector the
\* pending turn is RIGHT if the leftmost or left-front sector is obstructed,
\* else LEFT if the rightmost or right-front sector is obstructed, else LEFT
\* if left-front is clear and RIGHT otherwise; the first rule that matches
\* wins, so an obstruction on both sides gives RIGHT.
\* ---------------------------------------------------------------------------
C13_TurnDirection ==
    ~is_all_clear(sector_status)
        => /\ vfh.turn_direction = DesiredTurn(sector_status)
           /\ vfh.turn_direction \in {"LEFT", "RIGHT"}
           /\ ( /\ \E l \in {"Kiri", "Kiri-Depan"} : sector_status[l] = "High"
                /\ \E r \in {"Kanan", "Kanan-Depan"} : sector_status[r] = "High" )
              => vfh.turn_direction = "RIGHT"

C13_Witness ==
    /\ sector_status = [AllLow EXCEPT !["Kiri"] = "High", !["Kanan"] = "High"]
    /\ vfh.turn_direction = "RIGHT"
    /\ vfh_command = "RIGHT"
    /\ vfh.command_start_time = now

\* ---------------------------------------------------------------------------
\* C14 - determinism: the command a step returns, and whether it restarts
\* the timer, depend only on current_command, on the time elapsed on the
\* timer and on the sector status of the step; a controller that differs
\* from this one in its pending turn direction (left by earlier cycles) or
\* in when it was started answers every next step in the same way.
\* ---------------------------------------------------------------------------
C14_StepIgnoresHistory ==
    \A status \in SectorStatuses, dt \in {0, turn_duration, forward_duration} :
       \A pending \in {None, "LEFT", "RIGHT"}, shift \in 0..1 :
          LET other == [vfh EXCEPT !.turn_direction = pending,
                                   !.command_start_time = @ + shift]
              a == get_vfh_command(vfh, status, now + dt)
              b == get_vfh_command(other, status, now + dt + shift)
          IN  /\ a.current_command = b.current_command
              /\ a.turn_direction = b.turn_direction \/ is_all_clear(status)
              /\ b.command_start_time = a.command_start_time + shift

\* a pending LEFT from an earlier cycle does not keep the next step from
\* answering RIGHT to an obstacle on the left
C14_Witness ==
    /\ vfh.turn_direction = "LEFT"
    /\ vfh.current_command = "FORWARD"
    /\ path_clear
    /\ now - vfh.command_start_time >= forward_duration
    /\ get_vfh_command(vfh, [AllLow EXCEPT !["Kiri-Depan"] = "High"], now).current_command
          = "RIGHT"

\* ---------------------------------------------------------------------------
\* C15 - avoidance state: current_command is FORWARD before the first step
\* and is one of FORWARD, LEFT, RIGHT after every step, never unset and
\* never STOP; the command a step returns is that current_command.
\* ---------------------------------------------------------------------------
C15_CurrentCommandIsReal ==
    /\ vfh.current_command \in {"FORWARD", "LEFT", "RIGHT"}
    /\ vfh_command = None => vfh.current_command = "FORWARD"
    /\ vfh_command # None => vfh_command = vfh.current_command

\* the first turn ever, taken for an obstacle in the centre sector only
C15_Witness ==
    /\ sector_status = [AllLow EXCEPT !["Tengah"] = "High"]
    /\ vfh_command = "LEFT"
    /\ vfh.command_start_time = now
    /\ now = forward_duration

\* ---------------------------------------------------------------------------
\* C16 - arbiter totality: whatever the override, the sectors, the avoidance
\* command and the marker observation of the cycle, the final command is one
\* of FORWARD, LEFT, RIGHT, STOP (never unset) and the mode is one of
\* VFH_ACTIVE, ARUCO_TRACKING, ARUCO_REACHED, SEARCH; with no override, a
\* clear path and no marker the result is (STOP, SEARCH).
\* ---------------------------------------------------------------------------
C16_ArbiterIsTotal ==
    pc = "dispatch" =>
        /\ final_command \in {"FORWARD", "LEFT", "RIGHT", "STOP"}
        /\ mode \in {"VFH_ACTIVE", "ARUCO_TRACKING", "ARUCO_REACHED", "SEARCH"}
        /\ (force_mode = None /\ path_clear /\ ~aruco_result.detected)
              => (final_command = "STOP" /\ mode = "SEARCH")

\* nothing to avoid and nothing to follow: the arbiter idles
C16_Witness ==
    /\ pc = "dispatch"
    /\ force_mode = None
    /\ sector_status = AllLow
    /\ ~aruco_result.detected
    /\ aruco_command = None
    /\ final_command = "STOP"
    /\ mode = "SEARCH"

\* ---------------------------------------------------------------------------
\* C17 - ARUCO_ONLY override: the result is (tracking command,
\* ARUCO_TRACKING) when the marker is detected and (STOP, SEARCH) when it is
\* not, whatever the sectors and whatever the marker distance.
\* ---------------------------------------------------------------------------
C17_ArucoOnly ==
    (pc = "dispatch" /\ force_mode = "ARUCO_ONLY") =>
        IF aruco_result.detected
        THEN final_command = aruco_command /\ mode = "ARUCO_TRACKING"
        ELSE final_command = "STOP" /\ mode = "SEARCH"

\* a near marker followed through an obstructed sector
C17_Witness ==
    /\ pc = "dispatch"
    /\ force_mode = "ARUCO_ONLY"
    /\ ~path_clear
    /\ aruco_result.detected
    /\ aruco_result.distance # NoDistance
    /\ aruco_result.distance < ARUCO_APPROACH_DISTANCE
    /\ final_command = aruco_command
    /\ mode = "ARUCO_TRACKING"

\* ---------------------------------------------------------------------------
\* C18 - approach rule: with no override, a clear path and a marker
\* detected, the result is (STOP, ARUCO_REACHED) when the distance is known
\* and strictly below the approach distance, and (tracking command,
\* ARUCO_TRACKING) otherwise, an unknown distance and a distance equal to the
\* approach distance included.
\* ---------------------------------------------------------------------------
C18_ApproachRule ==
    (pc = "dispatch" /\ force_mode = None /\ path_clear /\ aruco_result.detected) =>
        IF /\ aruco_result.distance # NoDistance
           /\ aruco_result.distance < ARUCO_APPROACH_DISTANCE
        THEN final_command = "STOP" /\ mode = "ARUCO_REACHED"
        ELSE final_command = aruco_command /\ mode = "ARUCO_TRACKING"

\* a marker in the left zone, 0.3 m away
C18_Witness ==
    /\ pc = "dispatch"
    /\ force_mode = None
    /\ path_clear
    /\ aruco_result = [detected |-> TRUE, zone |-> "LEFT", distance |-> 3]
    /\ aruco_command = "RIGHT"
    /\ final_command = "STOP"
    /\ mode = "ARUCO_REACHED"

\* ---------------------------------------------------------------------------
\* C19 - VFH_ONLY override: the result is (avoidance command, VFH_ACTIVE)
\* for every sector status and every marker observation.
\* ---------------------------------------------------------------------------
C19_VfhOnly ==
    (pc = "dispatch" /\ force_mode = "VFH_ONLY") =>
        final_command = vfh_command /\ mode = "VFH_ACTIVE"

\* a clear path with a near marker in sight, still driven by the avoidance
C19_Witness ==
    /\ pc = "dispatch"
    /\ force_mode = "VFH_ONLY"
    /\ sector_status = AllLow
    /\ aruco_result.detected
    /\ aruco_result.distance = 3
    /\ vfh_command = "FORWARD"
    /\ final_command = "FORWARD"
    /\ mode = "VFH_ACTIVE"

\* ---------------------------------------------------------------------------
\* C20 - tracking mapper: a detected marker in zone LEFT gives RIGHT, in zone
\* RIGHT gives LEFT and in zone CENTER gives FORWARD; with no marker the
\* mapper gives no command, and the arbiter never passes that on as the
\* final command.
\* ---------------------------------------------------------------------------
C20_TrackingMapper ==
    pc = "dispatch" =>
        IF aruco_result.detected
        THEN /\ aruco_result.zone = "LEFT" => aruco_command = "RIGHT"
             /\ aruco_result.zone = "RIGHT" => aruco_command = "LEFT"
             /\ aruco_result.zone = "CENTER" => aruco_command = "FORWARD"
        ELSE aruco_command = None /\ final_command # None

\* a far marker on the right, followed by turning left
C20_Witness ==
    /\ pc = "dispatch"
    /\ force_mode = None
    /\ path_clear
    /\ aruco_result.detected
    /\ aruco_result.zone = "RIGHT"
    /\ aruco_command = "LEFT"
    /\ final_command = "LEFT"
    /\ mode = "ARUCO_TRACKING"

\* the sector the specification assigns a point to: floor(azimuth / (pi / sectorCount))
SectorOf(c) == (theta_point(c, angle_y) * num_sectors) \div HalfTurn

\* a step that classified a frame (the rotate-view keys always change angle_y)
Classified == angle_y' = angle_y /\ num_sectors' = num_sectors

\* ---------------------------------------------------------------------------
\* C21 - sector classifier: a sector is High exactly when some point of
\* positive depth assigned to it has an (unrotated) depth strictly below
\* threshold_distance; a sector without such a point, and so every sector
\* whose only readings are zero-depth, is Low.
\* ---------------------------------------------------------------------------
C21_SectorStatus ==
    \A i \in 0..(Len(sector_labels) - 1) :
        LET points == {c \in DOMAIN depth_frame :
                          depth_frame[c] > 0 /\ SectorOf(c) = i}
        IN  sector_status[sector_labels[i + 1]] =
                IF \E c \in points : depth_frame[c] < threshold_distance
                THEN "High" ELSE "Low"

C21_Classifier == [][Classified => C21_SectorStatus']_vars

\* five sectors, view turned by 10 degrees: the near point on the far left of
\* the image makes "Kanan" High; the first sector holds a point exactly at the
\* threshold and a zero-depth reading and stays Low
C21_Witness ==
    /\ num_sectors = 5
    /\ angle_y = 10
    /\ depth_frame = [c \in Columns |-> CASE c = 86 -> 5 [] c = 319 -> 10 [] c = 320 -> 0]
    /\ sector_status = [AllLow EXCEPT !["Kanan"] = "High"]
    /\ ~path_clear

\* ---------------------------------------------------------------------------
\* C22 - sector classifier partition: whatever the frame, the view angle and
\* the sector count, every point of positive depth lies in the mask of
\* exactly one named sector, so the masks together hold every valid point.
\* ---------------------------------------------------------------------------
C22_Partition ==
    \A c \in valid(depth_frame) :
        Cardinality({label \in Labels :
                        c \in mask_sector(depth_frame, angle_y, num_sectors,
                                          sector_index(label))}) = 1

\* ---------------------------------------------------------------------------
\* C23 - is_all_clear is true exactly when every sector is Low; an absent
\* frame classifies as Low everywhere, so is_all_clear is true and the
\* avoidance controller, whatever it was doing, answers FORWARD.
\* ---------------------------------------------------------------------------
C23_FailOpen ==
    /\ path_clear <=> (\A i \in 1..Len(sector_labels) : sector_status[sector_labels[i]] = "Low")
    /\ depth_frame = NoFrame =>
          /\ \A label \in Labels : sector_status[label] = "Low"
          /\ path_clear
          /\ \A v \in VfhStates, t \in 0..MaxDt :
                get_vfh_command(v, sector_status, t).current_command = "FORWARD"

\* an absent frame classified under a turned view
C23_Witness ==
    /\ depth_frame = NoFrame
    /\ angle_y = 5
    /\ num_sectors = 5
    /\ sector_status = AllLow
    /\ path_clear
    /\ get_vfh_command([vfh EXCEPT !.current_command = "LEFT",
                                   !.turn_direction = "LEFT"],
                       sector_status, now).current_command = "FORWARD"

\* the view angles the rotate-view keys reach
ViewAngles == {5 * k : k \in (0 - MaxTurns)..MaxTurns}

\* ---------------------------------------------------------------------------
\* C24 - the view angle affects only the binning: for the frame at hand,
\* is_all_clear of the classification is the same under every view angle,
\* and it is false exactly when some point of positive depth is nearer than
\* threshold_distance.
\* ---------------------------------------------------------------------------
C24_YawOnlyBins ==
    \A yaw \in ViewAngles :
        is_all_clear(analyze_sectors(depth_frame, yaw, num_sectors))
            <=> ~(\E c \in valid(depth_frame) : depth_frame[c] < threshold_distance)

\* ---------------------------------------------------------------------------
\* C25 - cooperative cancellation: every iteration of the control loop
\* checks for the quit key, also an iteration whose frame acquisition fails;
\* so with a quit request pending no iteration ends at the continue, and the
\* key check of the iteration leads to the shutdown sequence.
\* ---------------------------------------------------------------------------
C25_QuitHonoured ==
    [][quit_requested =>
          /\ pc = "acquire" => ~(skipped' /\ ~skipped)
          /\ pc = "key" => pc' = "cleanup"]_vars

\* ---------------------------------------------------------------------------
\* C26 - debounce hold: in a step with some sector High whose dwell has not
\* elapsed (FORWARD for less than forward_duration, LEFT or RIGHT for less
\* than turn_duration), current_command and command_start_time stay as they
\* are and the previous command is returned, also when the sectors now call
\* for the opposite turn.
\* ---------------------------------------------------------------------------
C26_DebounceHold ==
    [][(/\ ~is_all_clear(sector_status')
        /\ \/ /\ vfh.current_command = "FORWARD"
              /\ now' - vfh.command_start_time < forward_duration
           \/ /\ vfh.current_command \in {"LEFT", "RIGHT"}
              /\ now' - vfh.command_start_time < turn_duration)
       => /\ vfh'.current_command = vfh.current_command
          /\ vfh'.command_start_time = vfh.command_start_time
          /\ vfh_command' = vfh.current_command]_vars

\* a left turn held while the left sector, which calls for RIGHT, is High
C26_Witness ==
    /\ vfh_command = "LEFT"
    /\ vfh.current_command = "LEFT"
    /\ sector_status = [AllLow EXCEPT !["Kiri"] = "High"]
    /\ vfh.turn_direction = "RIGHT"
    /\ now - vfh.command_start_time = 1

\* ---------------------------------------------------------------------------
\* C27 - no direct reversal: the commands returned by two consecutive steps
\* are never LEFT then RIGHT nor RIGHT then LEFT.
\* ---------------------------------------------------------------------------
C27_NoDirectReversal ==
    [][/\ ~(vfh_command = "LEFT" /\ vfh_command' = "RIGHT")
       /\ ~(vfh_command = "RIGHT" /\ vfh_command' = "LEFT")]_vars

\* a right turn that has lasted its dwell while the sectors call for LEFT;
\* the step that ends it can only answer FORWARD
C27_Witness ==
    /\ vfh_command = "RIGHT"
    /\ sector_status = [AllLow EXCEPT !["Kanan"] = "High"]
    /\ vfh.turn_direction = "LEFT"
    /\ now - vfh.command_start_time = turn_duration - 1

\* ---------------------------------------------------------------------------
\* C28 - persistent obstacle: while some sector is High in every cycle and
\* the clock advances between cycles, the command returned is FORWARD
\* infinitely often and a turn infinitely often.
\* ---------------------------------------------------------------------------
C28_AlternatesForever ==
    /\ []<>(vfh_command = "FORWARD")
    /\ []<>(vfh_command \in {"LEFT", "RIGHT"})

\* back to FORWARD at the end of a turn, the obstacle still there
C28_Witness ==
    /\ ~path_clear
    /\ sighting = "repeat"
    /\ vfh_command = "FORWARD"
    /\ vfh.turn_direction \in {"LEFT", "RIGHT"}
    /\ now = 0

\* the latest event on the port
LastEvent(a) == a.link[Len(a.link)]

\* ---------------------------------------------------------------------------
\* C29 - emergency stop persistence: the emergency stop sends STOP and
\* leaves the controller's current_command as it was; a cycle whose final
\* command equals current_command sends nothing; so a command other than
\* STOP reaches the port only from a dispatch whose final command differs
\* from current_command.
\* ---------------------------------------------------------------------------
C29_EmergencyStopPersists ==
    [][/\ (pc = "key" /\ arduino'.link # arduino.link)
             => /\ current_command' = current_command
                /\ LastEvent(arduino').cmd = "STOP"
       /\ (pc = "dispatch" /\ final_command = current_command)
             => /\ arduino' = arduino
                /\ current_command' = current_command
       /\ (/\ Len(arduino'.link) > Len(arduino.link)
           /\ IsWrite(LastEvent(arduino'))
           /\ LastEvent(arduino').cmd # "STOP")
             => /\ pc = "dispatch"
                /\ final_command # current_command
                /\ LastEvent(arduino').cmd = final_command]_vars

\* a whole cycle after an emergency stop: the final command is still the one
\* the controller recorded before the stop, and STOP is still the last thing
\* the port has carried
C29_Witness ==
    /\ pc = "key"
    /\ current_command # "STOP"
    /\ final_command = current_command
    /\ arduino.last_command = "STOP"
    /\ Len(arduino.link) >= 2
    /\ LastEvent(arduino) = Write("STOP", TRUE, "send_command")
    /\ arduino.link[Len(arduino.link) - 1] = Write(current_command, TRUE, "send_command")

\* ---------------------------------------------------------------------------
\* C30 - sensor-failure cycle: an iteration whose frame acquisition fails
\* does nothing else: no classification, avoidance step, arbitration or
\* dispatch, nothing on the port, and the avoidance state, the dispatcher
\* state, current_command and mode are as before; the loop goes on to the
\* next iteration.
\* ---------------------------------------------------------------------------
C30_FailedFrameChangesNothing ==
    [][(pc = "acquire" /\ ~skipped /\ skipped')
          => /\ arduino' = arduino
             /\ vfh' = vfh
             /\ current_command' = current_command
             /\ mode' = mode
             /\ force_mode' = force_mode
             /\ UNCHANGED loop_vars
             /\ pc' = "acquire"]_vars

\* frames are lost while the robot is executing a turn sent earlier: the
\* turn stays the last command on the port
C30_Witness ==
    /\ pc = "acquire"
    /\ skipped
    /\ current_command \in {"LEFT", "RIGHT"}
    /\ arduino.last_command = current_command
    /\ arduino.connected
    /\ Len(arduino.link) > 0
    /\ LastEvent(arduino) = Write(current_command, TRUE, "send_command")

\* the loop is running (it has not reached cleanup)
InLoop == pc \in {"acquire", "dispatch", "key"}

\* what the dispatch step of a cycle does to the dispatcher and to the
\* controller's record: nothing when the final command is the recorded one,
\* else one send_command of the final command, recorded whatever its outcome
DispatchDedup ==
    (pc = "dispatch" /\ pc' = "key") =>
        IF final_command = current_command
        THEN arduino' = arduino /\ current_command' = current_command
        ELSE /\ \E ok \in BOOLEAN : arduino' = send_command(arduino, final_command, ok)
             /\ current_command' = final_command

\* ---------------------------------------------------------------------------
\* C31 - as claimed: the loop calls the dispatcher only in cycles whose
\* final command differs from current_command, which starts as STOP and is
\* set to the final command after every such call, sent or not; hence while
\* every final command since startup has been STOP nothing has been
\* transmitted.
\* ---------------------------------------------------------------------------
C31_NothingWhileStop ==
    (InLoop /\ stop_only) => Transmissions(arduino.link) = <<>>

\* C31 - amended: the same, except that what stays silent while every final
\* command has been STOP is the dispatch step: current_command is still STOP
\* and the only thing the port can have carried is the STOP of an emergency
\* stop.  A command whose send failed is not offered again while the final
\* command stays the same.
C31_LoopDedup ==
    [][/\ DispatchDedup
       /\ (InLoop /\ stop_only) =>
             /\ current_command = "STOP"
             /\ arduino.last_command \in {None, "STOP"}
             /\ \A i \in 1..Len(arduino.link) : arduino.link[i].cmd = "STOP"
             /\ pc = "dispatch" => arduino'.link = arduino.link]_vars

\* a later cycle asks again for the command whose send failed: the port is
\* marked disconnected, the dispatcher never recorded the command, and the
\* loop is about to skip the call
C31_Witness ==
    /\ pc = "dispatch"
    /\ final_command = current_command
    /\ current_command # "STOP"
    /\ ~arduino.connected
    /\ arduino.last_command # current_command
    /\ Len(arduino.link) > 0
    /\ LastEvent(arduino) = Write(current_command, FALSE, "send_command")

\* ---------------------------------------------------------------------------
\* C32 - link release resets the dispatcher: a step that releases the port
\* leaves last_command unset and connected false; while the port is released
\* connected is false, and no step taken from there, whether a send, a close
\* or a reconnect, puts anything on the link; a valid command sent before the
\* port is open again is only recorded and reported as sent.
\* ---------------------------------------------------------------------------
C32_ReleaseResets ==
    [][/\ (arduino.serial = None) => (~arduino.connected /\ arduino'.link = arduino.link)
       /\ (arduino.serial = "open" /\ arduino'.serial = None)
             => (arduino'.last_command = None /\ ~arduino'.connected)
       /\ (\E ok \in BOOLEAN : arduino' = close(arduino, ok))
             => (arduino'.last_command = None /\ ~arduino'.connected)
       /\ \A c \in valid_commands :
             ( /\ arduino.serial = None
               /\ \E ok \in BOOLEAN : arduino' = send_command(arduino, c, ok) )
             => /\ arduino'.sent
                /\ arduino'.last_command = c
                /\ arduino'.serial = None
                /\ ~arduino'.connected]_vars

\* FORWARD was transmitted, the port was closed, and LEFT sent afterwards is
\* recorded without reaching the link
C32_Witness ==
    /\ arduino.serial = None
    /\ ~arduino.connected
    /\ arduino.sent
    /\ arduino.last_command = "LEFT"
    /\ arduino.link = <<Write("FORWARD", TRUE, "send_command"),
                        Write("STOP", TRUE, "close"), PortClose>>

\* ---------------------------------------------------------------------------
\* C33 - straight ahead, with angle_y = 0 and five sectors: a point on the
\* optical axis has azimuth 0 and falls in sector 0, the leftmost label; the
\* points to the left of the axis, however slightly, wrap to the last
\* sector, the rightmost label, and those to its right stay in sector 0;
\* none of them reaches the centre sector, which is never High.
\* ---------------------------------------------------------------------------
C33_StraightAhead ==
    [][(Classified /\ angle_y' = 0 /\ num_sectors' = 5) =>
          /\ rotate_wrap(0, 0) = 0
          /\ in_sector(rotate_wrap(0, 0), 5, sector_index("Kiri"))
          /\ \A c \in valid(depth_frame') :
                /\ column_azimuth(c) > 0 =>
                      c \in mask_sector(depth_frame', 0, 5, sector_index("Kiri"))
                /\ column_azimuth(c) < 0 =>
                      c \in mask_sector(depth_frame', 0, 5, sector_index("Kanan"))
                /\ c \notin mask_sector(depth_frame', 0, 5, sector_index("Tengah"))
          /\ sector_status'["Kiri"] = "High" <=>
                (\E c \in valid(depth_frame') :
                    column_azimuth(c) > 0 /\ depth_frame'[c] < threshold_distance)
          /\ sector_status'["Kanan"] = "High" <=>
                (\E c \in valid(depth_frame') :
                    column_azimuth(c) < 0 /\ depth_frame'[c] < threshold_distance)
          /\ \A label \in {"Kiri-Depan", "Tengah", "Kanan-Depan"} :
                sector_status'[label] = "Low"]_vars

\* an obstacle dead ahead, half a metre away, seen by the two pixel columns on
\* either side of the optical axis: the outermost sectors are High, the centre
\* sector is not
C33_Witness ==
    /\ num_sectors = 5
    /\ angle_y = 0
    /\ depth_frame = [c \in Columns |-> CASE c = 86 -> 0 [] c = 319 -> 5 [] c = 320 -> 5]
    /\ sector_status = [AllLow EXCEPT !["Kiri"] = "High", !["Kanan"] = "High"]
    /\ ~path_clear

\* ---------------------------------------------------------------------------
\* C34 - centre-only case: after a step in which the centre sector is High
\* and the four other sectors are Low the turn direction is LEFT; the RIGHT
\* arm of the centre rule is never taken, so after a step with an obstacle
\* the turn direction is RIGHT exactly when the leftmost or the left-front
\* sector is High.
\* ---------------------------------------------------------------------------
C34_CentreOnly ==
    ~is_all_clear(sector_status) =>
        /\ vfh.turn_direction = "RIGHT"
              <=> (sector_status["Kiri"] = "High" \/ sector_status["Kiri-Depan"] = "High")
        /\ vfh.turn_direction = "LEFT"
              <=> (sector_status["Kiri"] = "Low" /\ sector_status["Kiri-Depan"] = "Low")
        /\ sector_status = [AllLow EXCEPT !["Tengah"] = "High"]
              => vfh.turn_direction = "LEFT"

\* an obstacle in the centre sector alone, met while the forward dwell is
\* still running: LEFT is pending
C34_Witness ==
    /\ sector_status = [AllLow EXCEPT !["Tengah"] = "High"]
    /\ vfh.turn_direction = "LEFT"
    /\ vfh_command = "FORWARD"
    /\ now - vfh.command_start_time < forward_duration

====
